---------------------------- MODULE Spec2Model ----------------------------
(*************************************************************************)
(* Model of the report scheduler of covid19-bot (src/helpers/bot.py):    *)
(* the worker loop Reporter._target, the delivery of one unit            *)
(* (chat, period, db_key) by Reporter.send_reports, the transport        *)
(* wrappers MyBot.send_message / MyBot.send_document, the delivery       *)
(* marker MyBot.update_last_report and the commands that touch the       *)
(* stored chat data.                                                     *)
(*                                                                       *)
(* Time is counted in whole hours of local time since 1970-01-01 00:00;  *)
(* the modelled interval lies in winter time, so local time has no       *)
(* daylight-saving jump in it.  A python dict is a function whose        *)
(* DOMAIN is the set of keys present; None is an absent key.             *)
(*************************************************************************)
EXTENDS Integers, Sequences, FiniteSets, TLC

VARIABLES
    chat_data,       \* Dispatcher.chat_data: chat id -> settings dict
    do_not_disturb,  \* Reporter._do_not_disturb: <<start hour, end hour>>
    stop_target,     \* Scheduler._stop_target
    pc,              \* position of the worker thread in Reporter._target
    clock,           \* wall clock, hours
    previous,        \* _target's local previous (= its local now during a pass)
    suppressed,      \* outcome of the do-not-disturb test of the latest pass
    snapshot,        \* chat ids of get_chat_data().items() iterated by the pass
    ci,              \* index of the chat in snapshot
    pi,              \* index of the period in periods
    di,              \* index of the db_key in db_keys
    current,         \* _target's local current (period key of the unit)
    sendFailed,      \* some transmission of the unit in progress did not arrive
    lastSent,        \* messages that reached Telegram in the latest step
    lastSkipped,     \* unit skipped as "already sent" in the latest step
    examined,        \* chats whose period loop ran in the latest pass
    entered,         \* chats whose db_key loop ran in the latest pass
    visited,         \* units whose db_key iteration ran in the latest pass
    passError,       \* an attempt of the latest pass ended in the except clause
    updateResult,    \* how db.update() ended in the latest pass
    unmarked,        \* messages in a chat from attempts that raised later on
    call,            \* arguments of a call of Reporter.get_report
    report,          \* what the call of get_report gave
    text,            \* the text send_reports made of the report
    thread,          \* Scheduler._thread: index in threads, 0 for None
    threads,         \* positions of the threads made by Scheduler.start
    conversation,    \* command and state of the conversation of a chat
    sleep,           \* _target's parameter sleep, seconds
    sending,         \* progress of a call of Reporter.send_reports
    local            \* content of the local files of a BaseDatabase

vars == <<chat_data, do_not_disturb, stop_target, pc, clock, previous,
          suppressed, snapshot, ci, pi, di, current, sendFailed, lastSent,
          lastSkipped, examined, entered, visited, passError, updateResult,
          unmarked, call, report, text, thread, threads, conversation,
          sleep, sending, local>>

config == <<do_not_disturb, sleep>>

-----------------------------------------------------------------------------
(* Bounds of the model *)

\* hours of wall-clock time that the model follows after the start
MaxClock == 24

\* largest number of hours that pass during one iteration of the loop
MaxStep == 1

\* largest number of rows of a table passed to get_report
MaxRows == 3

-----------------------------------------------------------------------------
(* Program constants *)

\* default of _target's parameter sleep, seconds
default_sleep == 30 * 60

SecondsPerHour == 60 * 60

HoursPerDay == 24

\* previous = None
None == 0 - 1

periods == <<"giorno", "settimana", "mese">>

period_fmt == [giorno |-> "%Y-%m-%d", settimana |-> "anno %Y, settimana %W",
               mese |-> "%Y-%m"]

\* hours
period_offset == [giorno |-> 0 - 14, settimana |-> 0 - 9 * HoursPerDay,
                  mese |-> 0 - 32 * HoursPerDay]

db_keys == <<"contagions", "vaccines">>

Range(s) == {s[k] : k \in DOMAIN s}

\* the chat ids in Dispatcher.chat_data, in the order of the dict
ChatIds == <<1, 2>>

Chats == Range(ChatIds)

\* MyBot._settings: the settings in the order they are asked, and their
\* options (the regions that _update_regions appends: one, "Lazio")
settings_keys == <<"format", "period", "contagions", "vaccines">>

settings_options == [format     |-> <<"testuale", "excel">>,
                     period     |-> <<"giorno", "settimana", "mese">>,
                     contagions |-> <<"Italia", "Lazio">>,
                     vaccines   |-> <<"Italia", "Lazio">>]

mandatory == [format |-> TRUE, period |-> TRUE, contagions |-> FALSE,
              vaccines |-> FALSE]

multiples == [format |-> FALSE, period |-> FALSE, contagions |-> TRUE,
              vaccines |-> TRUE]

\* ConversationHandler.END: no conversation in progress
END == "END"

\* <<command that opened the conversation, state of the ConversationHandler,
\* number of conversations opened so far, chat data when the command came>>
NoConversation == <<"", END, 0, <<>> >>

\* no call of send_reports followed step by step
NotSending == [phase |-> "idle", chat_id |-> 0, db_key |-> "", cur |-> <<>>,
               settings |-> <<>>, todo |-> <<>>, reports |-> <<>>,
               queue |-> <<>>, sent |-> {}, cause |-> ""]

\* no local file followed
NoFiles == <<>>

-----------------------------------------------------------------------------
(* Calendar: what pd.Timestamp.strftime does with the three formats *)

DaysFromCivil(y, m, d) ==
    LET yy  == IF m <= 2 THEN y - 1 ELSE y
        era == yy \div 400
        yoe == yy - era * 400
        mp  == IF m > 2 THEN m - 3 ELSE m + 9
        doy == (153 * mp + 2) \div 5 + d - 1
        doe == yoe * 365 + yoe \div 4 - yoe \div 100 + doy
    IN  era * 146097 + doe - 719468

CivilFromDays(z) ==
    LET zz  == z + 719468
        era == zz \div 146097
        doe == zz - era * 146097
        yoe == (doe - doe \div 1460 + doe \div 36524 - doe \div 146096) \div 365
        doy == doe - (365 * yoe + yoe \div 4 - yoe \div 100)
        mp  == (5 * doy + 2) \div 153
        d   == doy - (153 * mp + 2) \div 5 + 1
        m   == IF mp < 10 THEN mp + 3 ELSE mp - 9
        y   == yoe + era * 400 + (IF m <= 2 THEN 1 ELSE 0)
    IN  [year |-> y, month |-> m, day |-> d]

\* %W: week of the year, Monday first; days before the first Monday are week 0
WeekOfYear(z) ==
    LET y    == CivilFromDays(z).year
        yday == z - DaysFromCivil(y, 1, 1)
        wday == (z + 3) % 7
    IN  (yday + 7 - wday) \div 7

\* The formatted text is the format with its fields filled in: two texts are
\* equal iff they come from the same format and agree on every field.
Strftime(t, fmt) ==
    LET z == t \div HoursPerDay
        c == CivilFromDays(z)
    IN  CASE fmt = "%Y-%m-%d" -> <<fmt, c.year, c.month, c.day>>
          [] fmt = "anno %Y, settimana %W" -> <<fmt, c.year, WeekOfYear(z)>>
          [] fmt = "%Y-%m" -> <<fmt, c.year, c.month>>

\* first hour followed by the model: Monday 2021-12-20 00:00
StartClock == DaysFromCivil(2021, 12, 20) * HoursPerDay

LastClock == StartClock + MaxClock

\* pd.Timestamp("HH:00", tz): the given hour of the day of today
TimeOfToday(h, now) == (now \div HoursPerDay) * HoursPerDay + h

\* pd.Timedelta.seconds of a difference of d hours: the part below one day
TimedeltaSeconds(d) == (d % HoursPerDay) * SecondsPerHour

-----------------------------------------------------------------------------
(* python dict *)

EmptyDict == <<>>

Has(d, k) == k \in DOMAIN d

\* d[k] = v, or d.update({k: v})
Put(d, k, v) == [x \in DOMAIN d \cup {k} |-> IF x = k THEN v ELSE d[x]]

-----------------------------------------------------------------------------
(* Reporter._target: its tests *)

\* the test without the case of a window past midnight
DoNotDisturbNoWrap(now, dnd) ==
    LET T0 == TimeOfToday(dnd[1], now)
        T  == TimeOfToday(dnd[2], now)
    IN  T0 < now /\ now < T

\* the "do not disturb" test
DoNotDisturb(now, dnd) ==
    LET T0 == TimeOfToday(dnd[1], now)
        T  == TimeOfToday(dnd[2], now)
    IN  \/ T0 < T /\ T0 < now /\ now < T
        \/ T0 > T /\ (T0 < now \/ now < T)

\* a test that holds back only after a pass suppressed by the quiet hours
TooEarlyAfterSuppressed(now) ==
    previous # None /\ suppressed
        /\ TimedeltaSeconds(now - previous) <= sleep

\* the test that holds a loop iteration back after the first pass
TooEarly(now) ==
    previous # None /\ TimedeltaSeconds(now - previous) <= sleep

CurrentPeriod(now, period) ==
    Strftime(now + period_offset[period], period_fmt[period])

Subscribed(settings, period) ==
    Has(settings, "period") /\ settings["period"] = period

\* the test reading the marker of another database
AlreadySentOtherDb(settings, db_key, cur) ==
    /\ Has(settings, "last_report")
    /\ \E k \in DOMAIN settings["last_report"] :
           k # db_key /\ cur = settings["last_report"][k]

\* the test "current report already sent"
AlreadySent(settings, db_key, cur) ==
    /\ Has(settings, "last_report")
    /\ Has(settings["last_report"], db_key)
    /\ cur = settings["last_report"][db_key]

-----------------------------------------------------------------------------
(* Reporter.send_reports *)

\* the areas with "Italia" taken once more as a region
ReportAreasItaliaAsRegion(settings, db_key) ==
    LET regions  == IF Has(settings, db_key) THEN settings[db_key] ELSE <<>>
        national == IF "Italia" \in Range(regions) THEN <<"Italia">> ELSE <<>>
    IN  national \o regions

\* the areas a report is generated for, in the order of generation
ReportAreas(settings, db_key) ==
    LET regions  == IF Has(settings, db_key) THEN settings[db_key] ELSE <<>>
        national == IF "Italia" \in Range(regions) THEN <<"Italia">> ELSE <<>>
    IN  national \o SelectSeq(regions, LAMBDA r : r # "Italia")

Textual(settings) == Has(settings, "format") /\ settings["format"] = "testuale"

\* what send_reports hands to the transport, in order: one message per
\* report, or the one spreadsheet
Transmissions(chat_id, db_key, cur, settings) ==
    LET areas == ReportAreas(settings, db_key)
    IN  IF Textual(settings)
        THEN [k \in 1..Len(areas) |-> <<chat_id, db_key, areas[k], cur>>]
        ELSE << <<chat_id, db_key, "xlsx", cur>> >>

\* send_message and send_document: a ChatMigrated answer ends in the
\* TypeError of _migrate_chat_data and a BadRequest is raised again (the
\* transmission raises); any other error is logged and the call returns
\* (the transmission is lost without an exception).
\* The ways msgs can go: the first r calls return, those in ok arrive,
\* and call r+1, if there is one, raises.
TransportOutcomes(msgs) ==
    { [sent   |-> {msgs[k] : k \in ok},
       lost   |-> (ok # 1..r) \/ r < Len(msgs),
       raised |-> r < Len(msgs)] :
         <<r, ok>> \in {<<r, ok>> \in (0..Len(msgs)) \X SUBSET (1..Len(msgs)) :
                           ok \subseteq 1..r} }

\* get_report raises when the data lack the period, and the spreadsheet
\* writer may refuse a workbook without sheets: nothing is transmitted then
GenerationCanFail(settings, db_key) ==
    Len(ReportAreas(settings, db_key)) > 0 \/ ~Textual(settings)

SendOutcomes(chat_id, db_key, cur, settings) ==
    (IF GenerationCanFail(settings, db_key)
     THEN {[sent |-> {}, lost |-> FALSE, raised |-> TRUE]}
     ELSE {})
    \cup TransportOutcomes(Transmissions(chat_id, db_key, cur, settings))

-----------------------------------------------------------------------------
(* MyBot.update_last_report *)

\* a marker write that starts a new last_report dict every time
ReplaceLastReport(settings, db_key, t) ==
    Put(settings, "last_report", Put(EmptyDict, db_key, t))

\* update_last_report(chat_id, db_key, t) on the settings of chat_id
UpdateLastReport(settings, db_key, t) ==
    IF Has(settings, "last_report")
    THEN Put(settings, "last_report", Put(settings["last_report"], db_key, t))
    ELSE Put(settings, "last_report", Put(EmptyDict, db_key, t))

-----------------------------------------------------------------------------
(* Numbers of a report.  A float is nan, an infinity or a fraction n/d in  *)
(* lowest terms with d > 0; rounding is left out.                          *)

Abs(a) == IF a < 0 THEN 0 - a ELSE a

RECURSIVE GCD(_, _)
GCD(a, b) == IF b = 0 THEN a ELSE GCD(b, a % b)

nan == [kind |-> "nan", n |-> 0, d |-> 1]

inf(sign) == [kind |-> "inf", n |-> sign, d |-> 1]

\* the float n/d, d # 0
Frac(n, d) ==
    LET g == GCD(Abs(n), Abs(d))
        s == IF d < 0 THEN 0 - 1 ELSE 1
    IN  [kind |-> "num", n |-> (s * n) \div g, d |-> (s * d) \div g]

RECURSIVE SeqSum(_)
SeqSum(s) == IF s = <<>> THEN 0 ELSE Head(s) + SeqSum(Tail(s))

\* The aggregations of a group.  obs holds the observations of the group
\* that are not nan: pandas skips nan in sum, mean and std.

\* GroupBy.sum: 0 for a group without observations
Sum(obs) == Frac(SeqSum(obs), 1)

\* GroupBy.mean
Mean(obs) == IF obs = <<>> THEN nan ELSE Frac(SeqSum(obs), Len(obs))

\* GroupBy.std, ddof = 1: nan for fewer than two observations.  The value
\* kept is the variance, the square of the standard deviation.
Std(obs) ==
    LET n  == Len(obs)
        sq == [k \in DOMAIN obs |-> obs[k] * obs[k]]
    IN  IF n <= 1 THEN nan
        ELSE Frac(n * SeqSum(sq) - SeqSum(obs) * SeqSum(obs), n * (n - 1))

\* one step of Series.pct_change() * 100 from the float a to the float b,
\* fill_method = "pad": a nan b is first replaced by a
PctChange(a, b) ==
    LET c == IF b.kind = "nan" THEN a ELSE b
    IN  IF a.kind = "nan" THEN nan
        ELSE IF a.n = 0
             THEN IF c.n = 0 THEN nan
                  ELSE inf(IF c.n > 0 THEN 1 ELSE 0 - 1)
             ELSE Frac(100 * (c.n * a.d - a.n * c.d), c.d * a.n)

-----------------------------------------------------------------------------
(* Reporter.get_report.  A dataframe is the sequence of its rows, a row a  *)
(* function from column names to values; the dict variables is the         *)
(* sequence of its (name, type) pairs in the order of declaration.  A      *)
(* date value is the hour it names.                                        *)

\* the order of two period keys of one format as texts: every field is
\* zero-padded, so the texts compare as their fields do from the left
KeyBefore(a, b) ==
    \E k \in 2..Len(a) :
        /\ a[k] < b[k]
        /\ \A j \in 2..(k - 1) : a[j] = b[j]

\* Series.drop_duplicates().sort_values() of a column of period keys
RECURSIVE SortKeys(_)
SortKeys(S) ==
    IF S = {} THEN <<>>
    ELSE LET first == CHOOSE a \in S : \A b \in S \ {a} : KeyBefore(a, b)
         IN  <<first>> \o SortKeys(S \ {first})

\* the distinct values of a date column in the order of groupby
RECURSIVE SortDates(_)
SortDates(S) ==
    IF S = {} THEN <<>>
    ELSE LET first == CHOOSE a \in S : \A b \in S : a <= b
         IN  <<first>> \o SortDates(S \ {first})

\* list.index(x) of python, counted from 1
IndexOf(s, x) == CHOOSE k \in DOMAIN s : s[k] = x /\ \A j \in 1..(k - 1) : s[j] # x

\* Series.iloc[i] with i counted from 0: a negative i counts from the end
Iloc(s, i) == IF i < 0 THEN s[Len(s) + i + 1] ELSE s[i + 1]

\* the period key that precedes cur by the calendar of the format
CalendarPrevious(dates_fmt, cur) ==
    CASE cur[1] = "%Y-%m-%d" ->
            Strftime((DaysFromCivil(cur[2], cur[3], cur[4]) - 1) * HoursPerDay,
                     cur[1])
      [] cur[1] = "%Y-%m" ->
            Strftime((DaysFromCivil(cur[2], cur[3], 1) - 1) * HoursPerDay,
                     cur[1])
      [] OTHER -> Iloc(dates_fmt, (IndexOf(dates_fmt, cur) - 1) - 1)

\* previous = dates_fmt.iloc[dates_fmt.tolist().index(current) - 1]
PreviousKey(dates_fmt, cur) == Iloc(dates_fmt, (IndexOf(dates_fmt, cur) - 1) - 1)

Max(S) == CHOOSE a \in S : \A b \in S : b <= a

\* the observations of var in the period key of an "actual" variable
ActualObs(df, date_column, fmt, var, key) ==
    LET sel == SelectSeq(df, LAMBDA r : Strftime(r[date_column], fmt) = key)
    IN  [k \in DOMAIN sel |-> sel[k][var]]

\* a cumulative variable taken as it is, without the differences
UndifferencedObs(df, date_column, fmt, var, key) ==
    ActualObs(df, date_column, fmt, var, key)

\* the observations of a "cumulative" variable in the period key:
\* groupby(date_column).max().diff(), whose first row is nan, put back
\* under the period keys
CumulativeObs(df, date_column, fmt, var, key) ==
    LET dates  == SortDates({df[k][date_column] : k \in DOMAIN df})
        top(t) == Max({df[k][var] : k \in {j \in DOMAIN df :
                                              df[j][date_column] = t}})
        diff   == [k \in 2..Len(dates) |-> top(dates[k]) - top(dates[k - 1])]
        rows   == SelectSeq([k \in 1..(Len(dates) - 1) |-> k + 1],
                            LAMBDA k : Strftime(dates[k], fmt) = key)
    IN  [k \in DOMAIN rows |-> diff[rows[k]]]

\* the row of the report for the variable var of type T
ReportRow(rows, date_column, fmt, var, T, prev, cur) ==
    LET obs(key) == IF T = "actual"
                    THEN ActualObs(rows, date_column, fmt, var, key)
                    ELSE CumulativeObs(rows, date_column, fmt, var, key)
        groups   == SortKeys({prev, cur})
    IN  [var     |-> var,
         totale  |-> Sum(obs(cur)),
         media   |-> Mean(obs(cur)),
         dev_std |-> Std(obs(cur)),
         var_pct |-> IF groups[1] = cur THEN nan
                     ELSE PctChange(Mean(obs(groups[1])), Mean(obs(cur)))]

\* a get_report that returns an empty report where it should raise
Returned(e) == [status |-> "ok", date_column |-> "", previous |-> <<>>,
                report |-> <<>>]

\* get_report left by the exception e
Raised(e) == [status |-> e, date_column |-> "", previous |-> <<>>,
              report |-> <<>>]

\* a choice of the date variable declared last
LastDateColumn(date_columns) == date_columns[Len(date_columns)][1]

\* date_column = date_columns[0]
FirstDateColumn(date_columns) == date_columns[1][1]

\* Reporter.get_report(df, variables, current, fmt, errors); previous is
\* the value of its local variable of that name
get_report(df, variables, cur, fmt, errors) ==
    LET mode         == IF errors \in {"strict", "ignore"} THEN errors
                        ELSE "ignore"
        isin_var     == [k \in DOMAIN variables |->
                            variables[k][1] \in df.columns]
        date_columns == SelectSeq(variables, LAMBDA v : v[2] = "date")
        date_column  == FirstDateColumn(date_columns)
        keys         == [k \in DOMAIN df.rows |->
                            Strftime(df.rows[k][date_column], fmt)]
        dates_fmt    == SortKeys(Range(keys))
        prev         == PreviousKey(dates_fmt, cur)
        rows         == SelectSeq(df.rows, LAMBDA r :
                            Strftime(r[date_column], fmt) \in {prev, cur})
        reported     == SelectSeq(variables, LAMBDA v :
                            v[2] \in {"actual", "cumulative"})
    IN  IF FALSE \in Range(isin_var) /\ mode = "strict"
        THEN Raised("ValueError")
        ELSE IF date_columns = <<>>
        THEN Raised("ValueError")
        ELSE IF Len(date_columns) > 1 /\ mode = "strict"
        THEN Raised("ValueError")
        ELSE IF date_column \notin df.columns
        THEN Raised("KeyError")
        ELSE IF cur \notin Range(keys)
        THEN Raised("ValueError")
        ELSE IF \E k \in DOMAIN reported : reported[k][1] \notin df.columns
        THEN Raised("IndexError")
        ELSE [status      |-> "ok",
              date_column |-> date_column,
              previous    |-> prev,
              report      |-> [k \in DOMAIN reported |->
                                 ReportRow(rows, date_column, fmt,
                                           reported[k][1], reported[k][2],
                                           prev, cur)]]

-----------------------------------------------------------------------------
(* Reporter.send_reports: the text of a report *)

\* largest k in lo..hi with k * k <= n
RECURSIVE IsqrtIn(_, _, _)
IsqrtIn(n, lo, hi) ==
    IF lo = hi THEN lo
    ELSE LET mid == (lo + hi + 1) \div 2
         IN  IF mid * mid <= n THEN IsqrtIn(n, mid, hi)
             ELSE IsqrtIn(n, lo, mid - 1)

\* the integer part of the square root of n < 2^31
Isqrt(n) == IsqrtIn(n, 0, IF n < 46340 THEN n ELSE 46340)

\* the float that a cell of the column col holds: "dev std" is kept as its
\* square, so the cell holds the integer root when there is one, else a
\* float that is no integer, given by its tenths
CellValue(col, x) ==
    IF col = "dev std" /\ x.kind = "num"
    THEN IF x.d = 1 /\ Isqrt(x.n) * Isqrt(x.n) = x.n
         THEN [kind |-> "num", n |-> Isqrt(x.n), tenths |-> 10 * Isqrt(x.n)]
         ELSE [kind |-> "frac", n |-> 0,
               tenths |-> (Isqrt((400 * x.n) \div x.d) + 1) \div 2]
    ELSE IF x.kind = "num"
    THEN IF x.d = 1
         THEN [kind |-> "num", n |-> x.n, tenths |-> 10 * x.n]
         ELSE [kind |-> "frac", n |-> 0,
               tenths |-> (20 * x.n + x.d) \div (2 * x.d)]
    ELSE [kind |-> x.kind, n |-> x.n, tenths |-> 0]

\* if int(x) == x: "{:d}".format(int(x)) else "{:.1f}".format(x); int(x)
\* raises ValueError for nan and OverflowError for an infinity
FormatCell(col, x) ==
    LET v == CellValue(col, x)
    IN  CASE v.kind = "nan"  -> <<"ValueError">>
          [] v.kind = "inf"  -> <<"OverflowError">>
          [] v.kind = "num"  -> <<"{:d}", v.n>>
          [] v.kind = "frac" -> <<"{:.1f}", v.tenths>>

columns == <<"totale", "media", "dev std", "var pct">>

\* the value of the column col in the row r of a report
Loc(r, col) ==
    CASE col = "totale"  -> r.totale
      [] col = "media"   -> r.media
      [] col = "dev std" -> r.dev_std
      [] col = "var pct" -> r.var_pct

\* the cells of the text of a report, row by row and column by column
FormatCells(rep) ==
    [k \in 1..(Len(rep) * Len(columns)) |->
        LET r   == rep[((k - 1) \div Len(columns)) + 1]
            col == columns[((k - 1) % Len(columns)) + 1]
        IN  <<r.var, col, FormatCell(col, Loc(r, col))>>]

\* the text of a report, or the exception of the first cell that int()
\* refuses
FormatText(rep) ==
    LET cells  == FormatCells(rep)
        failed == {k \in DOMAIN cells : Len(cells[k][3]) = 1}
        first  == CHOOSE k \in failed : \A j \in failed : k <= j
    IN  IF failed = {}
        THEN [status |-> "ok", cells |-> cells]
        ELSE [status |-> cells[first][3][1], cells |-> <<>>]

NoText == [status |-> "", cells |-> <<>>]

-----------------------------------------------------------------------------
(* Calls of Reporter.get_report *)

\* first day of the tables: Thursday 2021-12-30, so that the days of a
\* table lie in two months, two years and two weeks
FirstDay == DaysFromCivil(2021, 12, 30)

\* the days of the tables, counted from FirstDay: 30 and 31 December and
\* 1 January
Days == 0..2

\* values of the variable x
Values == {0, 100, 140, 190}

\* a row: the date columns data and data2 (the day after data) and x
Row(day, v) == [data  |-> (FirstDay + day) * HoursPerDay,
                data2 |-> (FirstDay + day + 1) * HoursPerDay,
                x     |-> v]

\* tables of up to MaxRows rows in the order of their dates
Tables ==
    LET R == {Row(day, v) : day \in Days, v \in Values}
    IN  UNION {{s \in [1..n -> R] :
                   \A k \in 1..(n - 1) : s[k].data <= s[k + 1].data} :
               n \in 0..MaxRows}

\* the dicts passed as variables
Declarations ==
    { << <<"data", "date">>, <<"x", "actual">> >>,
      << <<"data", "date">>, <<"x", "cumulative">> >>,
      << <<"x", "actual">> >>,
      << <<"data2", "date">>, <<"data", "date">>, <<"x", "actual">> >>,
      << <<"data", "date">>, <<"x", "actual">>, <<"y", "actual">> >> }

NoCall == [df |-> [columns |-> {}, rows |-> <<>>], variables |-> <<>>,
           current |-> <<>>, fmt |-> "", errors |-> ""]

\* no call made yet
NoReport == [status |-> "", date_column |-> "", previous |-> <<>>,
             report |-> <<>>]

-----------------------------------------------------------------------------
(* Initial state: the bot is constructed, its stored chat data loaded, and *)
(* MyBot.start has started the worker thread.                              *)

\* stored settings a chat can have when the bot starts
StoredSettings ==
    { EmptyDict,
      [format |-> "testuale", period |-> "giorno",
       contagions |-> <<"Italia", "Lazio">>, vaccines |-> <<"Italia">>],
      [format |-> "excel", period |-> "giorno",
       contagions |-> <<"Lazio">>, vaccines |-> <<>>],
      [format |-> "testuale", period |-> "settimana",
       contagions |-> <<>>, vaccines |-> <<"Italia">>] }

\* do-not-disturb windows the Reporter is constructed with
Windows == { <<21, 10>>, <<9, 17>> }

\* the worker thread before its first iteration, started at the instant t
InitWorkerAt(t) ==
    /\ stop_target = FALSE
    /\ pc = "loop"
    /\ clock = t
    /\ previous = None
    /\ suppressed = FALSE
    /\ snapshot = <<>>
    /\ ci = 1
    /\ pi = 1
    /\ di = 1
    /\ current = <<>>
    /\ sendFailed = FALSE
    /\ lastSent = {}
    /\ lastSkipped = {}
    /\ examined = {}
    /\ entered = {}
    /\ visited = {}
    /\ passError = FALSE
    /\ updateResult = "none"
    /\ unmarked = {}
    /\ thread = 0
    /\ threads = <<>>
    /\ conversation = NoConversation

InitWorker == InitWorkerAt(StartClock)

Init ==
    /\ sleep = default_sleep
    /\ sending = NotSending
    /\ local = NoFiles
    /\ chat_data \in [Chats -> StoredSettings]
    /\ do_not_disturb \in Windows
    /\ InitWorker
    /\ call = NoCall
    /\ report = NoReport
    /\ text = NoText

-----------------------------------------------------------------------------
(* Reporter._target *)

passSets == <<examined, entered, visited, passError>>
step == <<sendFailed, lastSent, lastSkipped>>
engine == <<call, report, text>>
handlers == <<thread, threads, conversation>>
services == <<sending, local>>

NoStep == sendFailed' = FALSE /\ lastSent' = {} /\ lastSkipped' = {}

\* a loop that does not read the stop flag
LoopForever == TRUE

\* the condition of the while loop: not self._stop_target
LoopCondition == ~stop_target

\* while not self._stop_target
LoopCheck ==
    /\ pc = "loop"
    /\ pc' = IF LoopCondition THEN "sleep" ELSE "done"
    /\ UNCHANGED <<chat_data, config, stop_target, clock, previous,
                   suppressed, snapshot, ci, pi, di, current, passSets,
                   step, updateResult>>
    /\ UNCHANGED <<unmarked, engine, services, handlers>>

\* the next period of the chat, the next chat, or the end of the pass
NextPeriod ==
    IF pi < Len(periods)
    THEN pc' = "period" /\ pi' = pi + 1 /\ ci' = ci
    ELSE IF ci < Len(snapshot)
         THEN pc' = "period" /\ pi' = 1 /\ ci' = ci + 1
         ELSE pc' = "loop" /\ pi' = 1 /\ ci' = 1

\* a db_key loop that reads the stop flag and gives the pass up
NextDbUnlessStopped ==
    IF stop_target
    THEN pc' = "loop" /\ ci' = 1 /\ pi' = 1 /\ di' = 1
    ELSE IF di < Len(db_keys)
         THEN pc' = "unit" /\ di' = di + 1 /\ UNCHANGED <<ci, pi>>
         ELSE di' = 1 /\ NextPeriod

\* the next db_key of the chat, or what follows the db_key loop
NextDb ==
    IF di < Len(db_keys)
    THEN pc' = "unit" /\ di' = di + 1 /\ UNCHANGED <<ci, pi>>
    ELSE di' = 1 /\ NextPeriod

\* the pass going on inside the do-not-disturb window
RunDespiteDoNotDisturb ==
    /\ pc' = "period"
    /\ snapshot' = ChatIds
    /\ updateResult' = "ok"

\* the pass that falls into the do-not-disturb window: continue
SkipPass ==
    /\ pc' = "loop"
    /\ snapshot' = <<>>
    /\ updateResult' = "none"

\* db.update() of every database, then the chats to iterate; an exception
\* of update() is not caught anywhere in _target and ends the thread
UpdateDatabases ==
    \/ /\ updateResult' = "ok"
       /\ snapshot' = ChatIds
       /\ pc' = "period"
    \/ /\ updateResult' = "failed"
       /\ snapshot' = <<>>
       /\ pc' = "crashed"

\* one iteration of the while loop up to the loop over the chats
Wake ==
    /\ pc = "sleep"
    /\ \E dt \in 0..MaxStep :
          /\ previous = None => dt = 0
          /\ clock + dt <= LastClock
          /\ clock' = clock + dt
    /\ LET now == clock'
       IN  IF TooEarly(now)
           THEN /\ pc' = "loop"
                /\ UNCHANGED <<previous, suppressed, snapshot, passSets,
                               step, updateResult>>
           ELSE /\ previous' = now
                /\ suppressed' = DoNotDisturb(now, do_not_disturb)
                /\ examined' = {} /\ entered' = {} /\ visited' = {}
                /\ passError' = FALSE
                /\ NoStep
                /\ IF suppressed' THEN SkipPass ELSE UpdateDatabases
    /\ UNCHANGED <<chat_data, config, stop_target, ci, pi, di,
                   current>>
    /\ UNCHANGED <<unmarked, engine, services, handlers>>

\* for period in self._periods: ... skip user
PeriodStep ==
    /\ pc = "period"
    /\ LET chat_id  == snapshot[ci]
           settings == chat_data[chat_id]
           period   == periods[pi]
       IN  /\ current' = CurrentPeriod(previous, period)
           /\ examined' = examined \cup {chat_id}
           /\ IF Subscribed(settings, period)
              THEN /\ entered' = entered \cup {chat_id}
                   /\ pc' = "unit" /\ di' = 1 /\ UNCHANGED <<ci, pi>>
              ELSE /\ entered' = entered
                   /\ di' = 1 /\ NextPeriod
    /\ NoStep
    /\ UNCHANGED <<chat_data, config, stop_target, clock, previous,
                   suppressed, snapshot, visited, passError,
                   updateResult>>
    /\ UNCHANGED <<unmarked, engine, services, handlers>>

\* an error of one unit ending the whole pass
UnitErrorEndsPass ==
    pc' = "loop" /\ ci' = 1 /\ pi' = 1 /\ di' = 1

\* except: unable to send report
UnitError == NextDb

\* for db_key: the "already sent" test, then send_reports inside try
UnitStep ==
    /\ pc = "unit"
    /\ LET chat_id  == snapshot[ci]
           settings == chat_data[chat_id]
           db_key   == db_keys[di]
           unit     == <<chat_id, db_key, current>>
       IN  /\ visited' = visited \cup {<<chat_id, db_key>>}
           /\ IF AlreadySent(settings, db_key, current)
              THEN /\ lastSkipped' = {unit}
                   /\ lastSent' = {} /\ sendFailed' = FALSE
                   /\ NextDb
                   /\ passError' = passError
                   /\ unmarked' = unmarked
              ELSE \E out \in SendOutcomes(chat_id, db_key, current, settings) :
                      /\ lastSkipped' = {}
                      /\ lastSent' = out.sent
                      /\ IF out.raised
                         THEN /\ sendFailed' = FALSE
                              /\ passError' = TRUE
                              /\ unmarked' = unmarked \cup out.sent
                              /\ UnitError
                         ELSE /\ sendFailed' = out.lost
                              /\ pc' = "mark"
                              /\ UNCHANGED <<ci, pi, di, passError,
                                             unmarked>>
    /\ UNCHANGED <<chat_data, config, stop_target, clock, previous,
                   suppressed, snapshot, current, examined, entered,
                   updateResult>>
    /\ UNCHANGED <<engine, services, handlers>>

\* self._bot.update_last_report(chat_id, db_key, current), still inside try
MarkStep ==
    /\ pc = "mark"
    /\ LET chat_id == snapshot[ci]
           db_key  == db_keys[di]
       IN  /\ chat_data' = [chat_data EXCEPT ![chat_id] =
                               UpdateLastReport(@, db_key, current)]
           /\ unmarked' = {m \in unmarked :
                               m[1] # chat_id \/ m[2] # db_key}
           /\ \E persisted \in BOOLEAN :
                 IF persisted
                 THEN NextDb /\ passError' = passError
                 ELSE UnitError /\ passError' = TRUE
    /\ NoStep
    /\ UNCHANGED <<config, stop_target, clock, previous, suppressed,
                   snapshot, current, examined, entered, visited,
                   updateResult>>
    /\ UNCHANGED <<engine, services, handlers>>

-----------------------------------------------------------------------------
(* Scheduler.stop and the commands *)

Alive == pc \notin {"done", "crashed"}

\* Scheduler.stop: self._stop_target = True when the thread is alive
Stop ==
    /\ Alive
    /\ ~stop_target
    /\ stop_target' = TRUE
    /\ UNCHANGED <<chat_data, config, pc, clock, previous,
                   suppressed, snapshot, ci, pi, di, current, passSets,
                   step, updateResult>>
    /\ UNCHANGED <<unmarked, engine, services, handlers>>

\* /disattiva_report: context.chat_data.clear()
DisableReports(chat_id) ==
    /\ chat_data[chat_id] # EmptyDict
    /\ chat_data' = [chat_data EXCEPT ![chat_id] = EmptyDict]
    /\ unmarked' = {m \in unmarked : m[1] # chat_id}
    /\ UNCHANGED <<config, stop_target, pc, clock, previous,
                   suppressed, snapshot, ci, pi, di, current, passSets,
                   step, updateResult>>
    /\ UNCHANGED <<engine, services, handlers>>

Next ==
    \/ LoopCheck
    \/ Wake
    \/ PeriodStep
    \/ UnitStep
    \/ MarkStep
    \/ Stop
    \/ \E chat_id \in Chats : DisableReports(chat_id)

Spec == Init /\ [][Next]_vars

-----------------------------------------------------------------------------
(* Reporter.get_report called on its own *)

ReportInit ==
    /\ sleep = default_sleep
    /\ sending = NotSending
    /\ local = NoFiles
    /\ chat_data = [chat_id \in Chats |-> EmptyDict]
    /\ do_not_disturb = <<21, 10>>
    /\ InitWorker
    /\ \E t \in Tables, v \in Declarations, fmt \in Range(period_fmt),
          day \in Days, e \in {"strict", "ignore"} :
          call = [df        |-> [columns |-> {"data", "data2", "x"},
                                 rows    |-> t],
                  variables |-> v,
                  current   |-> Strftime((FirstDay + day) * HoursPerDay, fmt),
                  fmt       |-> fmt,
                  errors    |-> e]
    /\ report = NoReport
    /\ text = NoText

\* report = self.get_report(df, variables=..., current=..., fmt=..., errors=...)
GetReport ==
    /\ report = NoReport
    /\ report' = get_report(call.df, call.variables, call.current, call.fmt,
                            call.errors)
    /\ UNCHANGED <<chat_data, config, stop_target, pc, clock,
                   previous, suppressed, snapshot, ci, pi, di, current,
                   passSets, step, updateResult, unmarked, call, text,
                   handlers, services>>

\* send_reports, textual format: the text of the report that get_report
\* returned
MakeText ==
    /\ report.status = "ok"
    /\ text = NoText
    /\ text' = FormatText(report.report)
    /\ UNCHANGED <<chat_data, config, stop_target, pc, clock,
                   previous, suppressed, snapshot, ci, pi, di, current,
                   passSets, step, updateResult, unmarked, call, report,
                   handlers, services>>

ReportNext == GetReport \/ MakeText

ReportSpec == ReportInit /\ [][ReportNext]_vars

-----------------------------------------------------------------------------
(* Scheduler.start and Scheduler.stop called in any order.  Every thread  *)
(* made by start runs Reporter._target; its position is "start" or "loop" *)
(* at the while condition (first or later iteration), "sleep" in the      *)
(* master sleep, "pass" in a pass, "done" after the return.               *)

\* largest number of calls of Scheduler.start
MaxStarts == 3

worker == <<pc, clock, previous, suppressed, snapshot, ci, pi, di, current,
            passSets, step, updateResult, unmarked>>

\* Scheduler.is_alive
is_alive == thread # 0 /\ threads[thread] # "done"

\* Scheduler.start: a new Thread, _stop_target = False, thread.start()
SchedulerStart ==
    /\ Len(threads) < MaxStarts
    /\ threads' = Append(threads, "start")
    /\ thread' = Len(threads) + 1
    /\ stop_target' = FALSE
    /\ UNCHANGED <<chat_data, config, worker, engine, services, conversation>>

\* Scheduler.stop(errors="ignore"): nothing when the thread is not alive;
\* else _stop_target = True and join(timeout), which returns when the thread
\* has ended or when the timeout is over; in both cases _thread = None
SchedulerStop ==
    /\ is_alive
    /\ stop_target' = TRUE
    /\ \E joined \in BOOLEAN :
          threads' = IF joined THEN [threads EXCEPT ![thread] = "done"]
                     ELSE threads
    /\ thread' = 0
    /\ UNCHANGED <<chat_data, config, worker, engine, services, conversation>>

\* while not self._stop_target: the first iteration goes on to a pass, a
\* later one to the master sleep
TargetLoop(t) ==
    /\ threads[t] \in {"start", "loop"}
    /\ threads' = [threads EXCEPT ![t] =
                      IF stop_target THEN "done"
                      ELSE IF threads[t] = "start" THEN "pass"
                      ELSE "sleep"]
    /\ UNCHANGED <<chat_data, config, stop_target, worker, engine, services,
                   thread, conversation>>

\* time.sleep(master_sleep), then continue when the latest pass of the
\* thread is less than sleep seconds ago, else a pass
TargetSleep(t) ==
    /\ threads[t] = "sleep"
    /\ \E dt \in 0..MaxStep :
          /\ clock + dt <= LastClock
          /\ clock' = clock + dt
    /\ \E next \in {"loop", "pass"} :
          threads' = [threads EXCEPT ![t] = next]
    /\ UNCHANGED <<chat_data, config, stop_target, pc, previous,
                   suppressed, snapshot, ci, pi, di, current, passSets,
                   step, updateResult, unmarked, engine, services, thread,
                   conversation>>

\* the pass, up to the next test of the while condition
TargetPass(t) ==
    /\ threads[t] = "pass"
    /\ threads' = [threads EXCEPT ![t] = "loop"]
    /\ UNCHANGED <<chat_data, config, stop_target, worker, engine, services,
                   thread, conversation>>

\* the bot constructed and not yet started
SchedulerInit ==
    /\ Init
    /\ do_not_disturb = <<21, 10>>
    /\ \A chat_id \in Chats : chat_data[chat_id] = EmptyDict

SchedulerNext ==
    \/ SchedulerStart
    \/ SchedulerStop
    \/ \E t \in DOMAIN threads : TargetLoop(t)
    \/ \E t \in DOMAIN threads : TargetSleep(t)
    \/ \E t \in DOMAIN threads : TargetPass(t)

SchedulerSpec == SchedulerInit /\ [][SchedulerNext]_vars

-----------------------------------------------------------------------------
(* BaseDatabase.update: every file is opened for writing and then filled  *)
(* with what urlopen reads.  A file is "absent", or holds the "old" or    *)
(* the "new" data, or is empty ("").                                      *)

\* the keys of the files of the vaccines database
file_keys == <<"deliveries", "doses", "people", "people_booster", "update">>

rest == <<chat_data, config, stop_target, worker, engine, handlers, sending>>

\* with open(local_path, "w") as file: the file is created or truncated
OpenLocal ==
    /\ local.phase = "open"
    /\ local' = [local EXCEPT !.phase = "download",
                              !.before = local.files[file_keys[local.i]],
                              !.files[file_keys[local.i]] = ""]
    /\ UNCHANGED rest

\* s = urlopen(remote_path).read(); file.write(s): an error of urlopen
\* leaves the with block and update()
Download ==
    /\ local.phase = "download"
    /\ \E ok \in BOOLEAN :
          local' = IF ok
                   THEN [local EXCEPT
                           !.files[file_keys[local.i]] = "new",
                           !.i = @ + 1,
                           !.phase = IF local.i < Len(file_keys)
                                     THEN "open" ELSE "returned"]
                   ELSE [local EXCEPT !.phase = "raised"]
    /\ UNCHANGED rest

\* update() is called with some files stored by an earlier update
DatabaseInit ==
    /\ chat_data = [chat_id \in Chats |-> EmptyDict]
    /\ do_not_disturb = <<21, 10>>
    /\ sleep = default_sleep
    /\ InitWorker
    /\ call = NoCall
    /\ report = NoReport
    /\ text = NoText
    /\ sending = NotSending
    /\ \E files \in [Range(file_keys) -> {"absent", "old"}] :
          local = [files |-> files, i |-> 1, phase |-> "open",
                   before |-> ""]

DatabaseNext == OpenLocal \/ Download

DatabaseSpec == DatabaseInit /\ [][DatabaseNext]_vars

-----------------------------------------------------------------------------
(* One attempt of a unit followed step by step: the try of _target with   *)
(* the call of send_reports, which generates the reports of the areas,    *)
(* makes the texts or the workbook, and then calls the transport.         *)

others == <<config, stop_target, worker, engine, handlers, local>>

\* send_reports(chat_id, db_key, current, fmt) is entered
StartSending(chat_id, db_key) ==
    LET settings == chat_data[chat_id]
    IN  [phase    |-> "generate",
         chat_id  |-> chat_id,
         db_key   |-> db_key,
         cur      |-> CurrentPeriod(clock, settings["period"]),
         settings |-> settings,
         todo     |-> ReportAreas(settings, db_key),
         reports  |-> <<>>,
         queue    |-> <<>>,
         sent     |-> {},
         cause    |-> ""]

\* the except clause also reached after a return of send_reports
MarksAlways(s) == s.phase \in {"returned", "raised"}

\* update_last_report is the statement after send_reports inside the try
Marks(s) == s.phase = "returned"

\* report = self.get_report(...) for the next area: it returns or raises
Generate ==
    /\ sending.phase = "generate"
    /\ sending.todo # <<>>
    /\ \E ok \in BOOLEAN :
          sending' = IF ok
                     THEN [sending EXCEPT
                              !.reports = Append(@, Head(sending.todo)),
                              !.todo = Tail(@)]
                     ELSE [sending EXCEPT !.phase = "raised",
                                          !.cause = "generation"]
    /\ UNCHANGED <<chat_data, others>>

\* the texts of all reports, or the workbook, are made; int(x) or the
\* writer may raise
Format ==
    /\ sending.phase = "generate"
    /\ sending.todo = <<>>
    /\ \E ok \in BOOLEAN :
          /\ ~ok => (sending.reports # <<>> \/ ~Textual(sending.settings))
          /\ sending' =
                IF ok
                THEN [sending EXCEPT
                        !.phase = "send",
                        !.queue =
                           IF Textual(sending.settings)
                           THEN [k \in DOMAIN sending.reports |->
                                   <<sending.chat_id, sending.db_key,
                                     sending.reports[k], sending.cur>>]
                           ELSE << <<sending.chat_id, sending.db_key,
                                     "xlsx", sending.cur>> >>]
                ELSE [sending EXCEPT !.phase = "raised",
                                     !.cause = "generation"]
    /\ UNCHANGED <<chat_data, others>>

\* send_message / send_document of the next text or of the workbook
Send ==
    /\ sending.phase = "send"
    /\ sending.queue # <<>>
    /\ \E out \in {"arrived", "lost", "raised"} :
          sending' =
             IF out = "raised"
             THEN [sending EXCEPT !.phase = "raised", !.cause = "transport"]
             ELSE [sending EXCEPT
                     !.queue = Tail(@),
                     !.sent = IF out = "arrived"
                              THEN @ \cup {Head(sending.queue)} ELSE @]
    /\ UNCHANGED <<chat_data, others>>

\* send_reports returns
Return ==
    /\ sending.phase = "send"
    /\ sending.queue = <<>>
    /\ sending' = [sending EXCEPT !.phase = "returned"]
    /\ UNCHANGED <<chat_data, others>>

\* the rest of the try: update_last_report, or the except clause
EndTry ==
    /\ sending.phase \in {"returned", "raised"}
    /\ chat_data' =
          IF Marks(sending)
          THEN [chat_data EXCEPT ![sending.chat_id] =
                   UpdateLastReport(@, sending.db_key, sending.cur)]
          ELSE chat_data
    /\ sending' = [sending EXCEPT !.phase = "done"]
    /\ UNCHANGED others

\* a pass has come to a unit of a subscribed chat
SendInit ==
    /\ chat_data \in [Chats -> StoredSettings]
    /\ do_not_disturb = <<21, 10>>
    /\ sleep = default_sleep
    /\ InitWorker
    /\ call = NoCall
    /\ report = NoReport
    /\ text = NoText
    /\ local = NoFiles
    /\ \E chat_id \in Chats, k \in DOMAIN db_keys :
          /\ chat_data[chat_id] # EmptyDict
          /\ sending = StartSending(chat_id, db_keys[k])

SendNext == Generate \/ Format \/ Send \/ Return \/ EndTry

SendSpec == SendInit /\ [][SendNext]_vars

-----------------------------------------------------------------------------
(* Fairness of the worker thread *)

\* the steps of the worker thread
Worker == LoopCheck \/ Wake \/ PeriodStep \/ UnitStep \/ MarkStep

\* the bot started with one chat subscribed and the other without settings
FairInit ==
    /\ Init
    /\ do_not_disturb = <<9, 17>>
    /\ chat_data[ChatIds[1]] # EmptyDict
    /\ Has(chat_data[ChatIds[1]], "format")
    /\ chat_data[ChatIds[1]]["format"] = "testuale"
    /\ chat_data[ChatIds[1]]["period"] = "giorno"
    /\ chat_data[ChatIds[2]] = EmptyDict

\* the thread is scheduled as long as it can take a step: every pass and
\* every sleep terminates
FairSpec == FairInit /\ [][Next]_vars /\ WF_vars(Worker)

-----------------------------------------------------------------------------
(* The worker thread with other values of _target's parameter sleep,      *)
(* started one day before StartClock so that more than a day goes by.     *)

SecondsPerDay == HoursPerDay * SecondsPerHour

\* values of the parameter sleep
Sleeps == {default_sleep, SecondsPerDay}

\* an iteration of the loop during which the wall clock moves on
Tick == Wake /\ clock' > clock

SleepInit ==
    /\ chat_data = [chat_id \in Chats |->
                      IF chat_id = ChatIds[1]
                      THEN [format |-> "testuale", period |-> "giorno",
                            contagions |-> <<"Italia", "Lazio">>,
                            vaccines |-> <<"Italia">>]
                      ELSE EmptyDict]
    /\ do_not_disturb = <<9, 17>>
    /\ sleep \in Sleeps
    /\ InitWorkerAt(StartClock - HoursPerDay)
    /\ call = NoCall
    /\ report = NoReport
    /\ text = NoText
    /\ sending = NotSending
    /\ local = NoFiles

\* the thread is scheduled and time goes by while it sleeps
SleepSpec ==
    SleepInit /\ [][Next]_vars /\ WF_vars(Worker) /\ SF_vars(Tick)

-----------------------------------------------------------------------------
(* The settings conversations /attiva_report and /richiedi_report of one  *)
(* chat, handled by the dispatcher while the worker thread runs.          *)

\* largest number of conversations the chat opens
MaxConversations == 1

\* the chat that talks to the bot
talker == ChatIds[1]

\* return ConversationHandler.END
EndConversation == <<"", END, conversation[3], EmptyDict>>

scheduler == <<config, stop_target, worker, engine, services, thread,
               threads>>

\* d.pop(k) that passes over a KeyError
Pop(d, k) == [x \in DOMAIN d \ {k} |-> d[x]]

\* an end of the conversation that only drops the saved copy
KeepSettings(d) == [x \in DOMAIN d \ {"previous_settings"} |-> d[x]]

\* previous = context.chat_data["previous_settings"].copy();
\* context.chat_data.clear(); context.chat_data.update(previous)
RestoreSettings(d) == d["previous_settings"]

\* _enable_reports(setting=None): the conversation starts
SaveSettings(d) ==
    Put(EmptyDict, "previous_settings", Pop(d, "previous_settings"))

\* the messages the talker answers with, each as the set of the options
\* whose name occurs in its text
Messages == { {"testuale"}, {"giorno"}, {"Italia"}, {"Italia", "Lazio"}, {} }

\* the options that occur in a message, in the order of the option list
Answers(setting) ==
    { SelectSeq(settings_options[setting], LAMBDA o : o \in message) :
          message \in Messages }

\* the messages of a requested report of today that can arrive: each call
\* of the transport may return without having sent
Requested(settings) ==
    LET cur == Strftime(clock, period_fmt[settings["period"]])
    IN  SUBSET UNION { Range(Transmissions(talker, db_keys[k], cur,
                                           settings)) : k \in DOMAIN db_keys }

\* the setting asked after setting, END after the last one
NextSetting(setting) ==
    LET i == CHOOSE k \in DOMAIN settings_keys : settings_keys[k] = setting
    IN  IF i + 1 <= Len(settings_keys) THEN settings_keys[i + 1] ELSE END

\* /attiva_report or /richiedi_report: entry point of the conversation
StartConversation(command) ==
    /\ conversation[2] = END
    /\ conversation[3] < MaxConversations
    /\ chat_data' = [chat_data EXCEPT ![talker] = SaveSettings(@)]
    /\ conversation' = <<command, settings_keys[1], conversation[3] + 1,
                         chat_data[talker]>>
    /\ UNCHANGED scheduler

\* /annulla, or a message no handler of the state takes
CancelConversation ==
    /\ conversation[2] # END
    /\ Has(chat_data[talker], "previous_settings")
    /\ chat_data' = [chat_data EXCEPT ![talker] = RestoreSettings(@)]
    /\ conversation' = EndConversation
    /\ UNCHANGED scheduler

\* _enable_reports(setting): the answer to the question about setting
AnswerSetting(answer) ==
    LET setting == conversation[2]
    IN  /\ setting \in Range(settings_keys)
        /\ answer \in Answers(setting)
        /\ IF mandatory[setting] /\ Len(answer) = 0
           THEN /\ Has(chat_data[talker], "previous_settings")
                /\ chat_data' = [chat_data EXCEPT
                                    ![talker] = RestoreSettings(@)]
                /\ conversation' = EndConversation
           ELSE /\ chat_data' = [chat_data EXCEPT ![talker] =
                       Put(@, setting, IF multiples[setting] THEN answer
                                       ELSE answer[1])]
                /\ conversation' =
                       IF NextSetting(setting) # END
                       THEN [conversation EXCEPT ![2] = NextSetting(setting)]
                       ELSE IF conversation[1] = "richiedi_report"
                       THEN [conversation EXCEPT ![2] = "current"]
                       ELSE EndConversation
        /\ UNCHANGED scheduler

\* _request_report(setting="current"): the reports are sent, or the failure
\* message, and the settings are restored
AnswerCurrent ==
    /\ conversation[2] = "current"
    /\ lastSent' \in Requested(chat_data[talker])
    /\ chat_data' = [chat_data EXCEPT ![talker] =
                        IF Has(@, "previous_settings")
                        THEN RestoreSettings(@) ELSE EmptyDict]
    /\ conversation' = EndConversation
    /\ UNCHANGED <<config, stop_target, pc, clock, previous,
                   suppressed, snapshot, ci, pi, di, current, passSets,
                   sendFailed, lastSkipped, updateResult, unmarked, engine, services,
                   thread, threads>>

\* the steps of the handlers of the conversations
Conversation ==
    \/ \E command \in {"attiva_report", "richiedi_report"} :
          StartConversation(command)
    \/ CancelConversation
    \/ \E setting \in Range(settings_keys) :
          \E answer \in Answers(setting) : AnswerSetting(answer)
    \/ AnswerCurrent

\* the bot started with the talker subscribed to the daily text reports
ConversationInit ==
    /\ Init
    /\ do_not_disturb = <<9, 17>>
    /\ chat_data[talker] =
          [format |-> "testuale", period |-> "giorno",
           contagions |-> <<"Italia", "Lazio">>, vaccines |-> <<"Italia">>]
    /\ chat_data[ChatIds[2]] = EmptyDict

ConversationNext == Worker \/ Conversation

\* what a chat can have stored when a command comes: nothing, settings
\* loaded at the start, and what a completed /attiva_report and a pass leave
PriorContents ==
    LET configured == { Put(new, "previous_settings", old) :
                           new \in StoredSettings \ {EmptyDict},
                           old \in StoredSettings }
    IN  StoredSettings
        \cup configured
        \cup { UpdateLastReport(d, "contagions",
                                <<"%Y-%m-%d", 2021, 12, 19>>) :
                  d \in configured }

\* the handlers alone, for every prior content of the chat data
HandlerInit ==
    /\ chat_data \in [Chats -> PriorContents]
    /\ chat_data[ChatIds[2]] = EmptyDict
    /\ do_not_disturb = <<21, 10>>
    /\ sleep = default_sleep
    /\ InitWorker
    /\ call = NoCall
    /\ report = NoReport
    /\ text = NoText
    /\ sending = NotSending
    /\ local = NoFiles

HandlerSpec == HandlerInit /\ [][Conversation]_vars

ConversationSpec == ConversationInit /\ [][ConversationNext]_vars

-----------------------------------------------------------------------------
(* Properties *)

\* the delivery marker of db_key in the settings d, <<>> when there is none
MarkerOf(d, db_key) ==
    IF Has(d, "last_report") /\ Has(d["last_report"], db_key)
    THEN d["last_report"][db_key]
    ELSE <<>>

InPass == pc \in {"period", "unit", "mark"}

\* the pass of the latest Wake ran through all its chats
PassComplete == ~InPass /\ updateResult = "ok"

HourOfDay(t) == t % HoursPerDay

\* C1: update_last_report is called for a unit only if every transmission
\* that send_reports attempted for the unit arrived: the worker never stands
\* before update_last_report with a lost transmission behind it.
C1_MarkerOnlyAfterSuccess == pc = "mark" => ~sendFailed

\* C2: idempotence: no step transmits a message for a unit (chat, db_key)
\* whose marker already is the period key of the message.
C2_Idempotent ==
    [][\A m \in lastSent' : MarkerOf(chat_data[m[1]], m[2]) # m[4]]_vars

\* a later pass meets a unit whose marker is the current period key and
\* skips it
C2_Witness ==
    \E u \in lastSkipped :
        /\ MarkerOf(chat_data[u[1]], u[2]) = u[3]
        /\ u[3] = current
        /\ lastSent = {}

\* C3: failure isolation: a pass that has ended has run the period loop of
\* every chat of its snapshot and the db_key iteration of every database
\* for every chat it found subscribed, whatever failed on the way.
C3_FailureIsolation ==
    PassComplete =>
        /\ \A chat_id \in Range(snapshot) : chat_id \in examined
        /\ \A chat_id \in entered : \A k \in DOMAIN db_keys :
              <<chat_id, db_keys[k]>> \in visited

\* after an error in an earlier unit the pass stands at the last database
\* of the last chat
C3_Witness ==
    /\ passError
    /\ pc = "unit"
    /\ ci = Len(ChatIds)
    /\ di = Len(db_keys)
    /\ entered = Chats

\* C4: a unit whose delivery failed keeps its marker: the step that follows
\* a lost transmission does not make the marker the period key of the unit
\* (so the next pass with the same key tries the unit again).
C4_FailedUnitNotMarked ==
    [][(pc = "mark" /\ sendFailed) =>
          MarkerOf(chat_data'[snapshot[ci]], db_keys[di]) # current]_vars

\* C5: the worker thread ends only by the stop flag.
C5_EndsOnlyByStop == ~Alive => (pc = "done" /\ stop_target)

\* C6: a pass whose db.update() failed goes on to iterate the chats.
C6_UpdateFailureNotFatal ==
    updateResult = "failed" => (Alive /\ snapshot # <<>>)

\* C7: in a pass suppressed by the do-not-disturb window the worker never
\* stands in the loops that generate, transmit and mark: nothing is
\* examined, visited or transmitted.
C7_QuietPass ==
    suppressed =>
        /\ ~InPass
        /\ lastSent = {}
        /\ examined = {}
        /\ visited = {}

\* a suppressed pass while a chat has a report due
C7_Witness ==
    /\ suppressed
    /\ pc = "loop"
    /\ \E chat_id \in Chats :
          /\ Subscribed(chat_data[chat_id], "giorno")
          /\ ~AlreadySent(chat_data[chat_id], "contagions",
                          CurrentPeriod(previous, "giorno"))
          /\ ReportAreas(chat_data[chat_id], "contagions") # <<>>

\* C8: window with start < end: a pass is suppressed iff start <= now < end,
\* the instant now = start included.
C8_NonWrappingHalfOpen ==
    (previous # None /\ do_not_disturb[1] < do_not_disturb[2]) =>
        (suppressed <=> /\ do_not_disturb[1] <= HourOfDay(previous)
                        /\ HourOfDay(previous) < do_not_disturb[2])

\* C9: window with start > end: a pass is suppressed iff now >= start or
\* now < end, the instant now = start included.
C9_WrappingHalfOpen ==
    (previous # None /\ do_not_disturb[1] > do_not_disturb[2]) =>
        (suppressed <=> \/ HourOfDay(previous) >= do_not_disturb[1]
                        \/ HourOfDay(previous) < do_not_disturb[2])

\* C10: window (21:00, 10:00): passes at 23:00 and 05:00 are suppressed, a
\* pass at 15:00 is not; window (09:00, 17:00): a pass at 12:00 is
\* suppressed, a pass at 20:00 is not.
C10_Examples ==
    previous # None =>
        /\ (do_not_disturb = <<21, 10>> /\ HourOfDay(previous) \in {23, 5})
              => suppressed
        /\ (do_not_disturb = <<21, 10>> /\ HourOfDay(previous) = 15)
              => ~suppressed
        /\ (do_not_disturb = <<9, 17>> /\ HourOfDay(previous) = 12)
              => suppressed
        /\ (do_not_disturb = <<9, 17>> /\ HourOfDay(previous) = 20)
              => ~suppressed

\* the pass at 23:00 with the window (21:00, 10:00)
C10_Witness ==
    /\ do_not_disturb = <<21, 10>>
    /\ previous # None
    /\ HourOfDay(previous) = 23
    /\ suppressed

\* every chat of the snapshot had its period loop run and every chat found
\* subscribed had the iteration of each database run
EveryUnitProcessed ==
    /\ \A chat_id \in Range(snapshot) : chat_id \in examined
    /\ \A chat_id \in entered : \A k \in DOMAIN db_keys :
          <<chat_id, db_keys[k]>> \in visited

\* C11: with the stop flag set while the worker sleeps between two passes,
\* the worker's next step does not start a pass over the chats.
C11_NoPassAfterStop ==
    [][(stop_target /\ pc = "sleep") => ~InPass']_vars

\* C12: with the stop flag set, a step taken inside a pass neither ends the
\* thread nor leaves the pass before every unit has been processed.
C12_NoMidPassStop ==
    [][(InPass /\ stop_target) =>
          /\ pc' # "done"
          /\ ~InPass' => (pc' = "loop" /\ EveryUnitProcessed')]_vars

\* the pass stands at its last unit while the stop flag is set
C12_Witness ==
    /\ stop_target
    /\ pc = "unit"
    /\ snapshot = ChatIds
    /\ ci = Len(ChatIds)
    /\ di = Len(db_keys)

\* C13: once the stop flag is set the worker thread eventually ends.
C13_StopTerminates == stop_target ~> ~Alive

\* the thread ended by the stop flag
C13_Witness == stop_target /\ pc = "done"

-----------------------------------------------------------------------------
(* Properties of Reporter.get_report *)

\* the date variables of the call in the order of declaration
CallDateColumns ==
    LET d == SelectSeq(call.variables, LAMBDA v : v[2] = "date")
    IN  [k \in DOMAIN d |-> d[k][1]]

\* the period keys of the records of the table, by the first date variable
CallKeys ==
    IF CallDateColumns = <<>> THEN {}
    ELSE {Strftime(call.df.rows[k][CallDateColumns[1]], call.fmt) :
             k \in DOMAIN call.df.rows}

\* every declared variable is a column of the table
CallComplete ==
    \A k \in DOMAIN call.variables : call.variables[k][1] \in call.df.columns

\* the requested key is the earliest key of the table
CurrentIsEarliest ==
    /\ call.current \in CallKeys
    /\ \A key \in CallKeys \ {call.current} : KeyBefore(call.current, key)

\* the call has been made
Called == report # NoReport

\* C14: a call whose current is the earliest period key of the table does
\* not return a report.
C14_EarliestKeyFails ==
    (Called /\ CurrentIsEarliest) => report.status # "ok"

\* C15: a call whose current is not among the period keys of the table ends
\* in an error.
C15_AbsentKeyFails ==
    (Called /\ call.current \notin CallKeys) => report.status # "ok"

\* a well-formed call on a table with records that lacks the requested key
C15_Witness ==
    /\ Called
    /\ Len(CallDateColumns) = 1
    /\ CallComplete
    /\ CallKeys # {}
    /\ call.current \notin CallKeys
    /\ report.status = "ValueError"

\* the requested key is in the table and is not its earliest key
CurrentHasPredecessor ==
    /\ call.current \in CallKeys
    /\ \E key \in CallKeys : KeyBefore(key, call.current)

\* the key of the table next below the requested one
Predecessor ==
    CHOOSE p \in CallKeys :
        /\ KeyBefore(p, call.current)
        /\ \A key \in CallKeys :
              KeyBefore(key, call.current) => (key = p \/ KeyBefore(key, p))

KeyOfDay(day, fmt) == Strftime((FirstDay + day) * HoursPerDay, fmt)

\* C16: a call that returns a report for a current that is not the earliest
\* key took as previous the key next below current among the keys of the
\* table.
C16_PreviousIsPredecessor ==
    (Called /\ report.status = "ok" /\ CurrentHasPredecessor) =>
        report.previous = Predecessor

\* a daily report whose previous is two days before current: the table has
\* no record of the day between
C16_Witness ==
    /\ report.status = "ok"
    /\ call.fmt = "%Y-%m-%d"
    /\ call.current = KeyOfDay(2, call.fmt)
    /\ report.previous = KeyOfDay(0, call.fmt)
    /\ KeyOfDay(1, call.fmt) \notin CallKeys

\* C17: without a date variable the call ends in an error in both modes;
\* with more than one it ends in an error in strict mode, and in ignore
\* mode it goes on with the date variable declared first: it returns a
\* report by that variable when the table has the requested key under it.
C17_DateValidation ==
    Called =>
        /\ Len(CallDateColumns) = 0 => report.status = "ValueError"
        /\ (Len(CallDateColumns) > 1 /\ call.errors = "strict")
              => report.status = "ValueError"
        /\ (Len(CallDateColumns) > 1 /\ call.errors = "ignore")
              => /\ report.status = "ok" <=> call.current \in CallKeys
                 /\ report.status = "ok" =>
                        report.date_column = CallDateColumns[1]

\* ignore mode, two date variables: a report by the first one, data2, for a
\* key that the table does not have under the second one, data
C17_Witness ==
    /\ report.status = "ok"
    /\ call.errors = "ignore"
    /\ Len(CallDateColumns) > 1
    /\ report.date_column = "data2"
    /\ \A k \in DOMAIN call.df.rows :
          Strftime(call.df.rows[k]["data"], call.fmt) # call.current

\* the values of x in the records of the period key
ValuesIn(key) ==
    {call.df.rows[k]["x"] : k \in {j \in DOMAIN call.df.rows :
        Strftime(call.df.rows[j][CallDateColumns[1]], call.fmt) = key}}

\* the variable x is declared with the type T
Declared(T) == \E k \in DOMAIN call.variables : call.variables[k] = <<"x", T>>

\* the values of x grow strictly from date to date
StrictlyIncreasing ==
    \A j, k \in DOMAIN call.df.rows :
        call.df.rows[j]["data"] < call.df.rows[k]["data"]
            => call.df.rows[j]["x"] < call.df.rows[k]["x"]

\* all values of x are the same
Flat == \A j, k \in DOMAIN call.df.rows :
            call.df.rows[j]["x"] = call.df.rows[k]["x"]

\* the table of the example: 100, 140 and 190 on three consecutive days
ExampleTable == <<Row(0, 100), Row(1, 140), Row(2, 190)>>

\* C18: in a report for a cumulative variable the total of the current
\* period is the largest value of the current period minus the largest
\* value of the previous period when the series is strictly increasing
\* (50 for the third day of 100, 140, 190), and 0 when the series is flat.
C18_CumulativeTotal ==
    (Called /\ report.status = "ok" /\ Declared("cumulative")
       /\ CurrentHasPredecessor) =>
        /\ StrictlyIncreasing =>
              report.report[1].totale =
                  Frac(Max(ValuesIn(call.current)) - Max(ValuesIn(Predecessor)),
                       1)
        /\ (call.df.rows = ExampleTable /\ call.fmt = "%Y-%m-%d"
               /\ call.current = KeyOfDay(2, call.fmt))
              => report.report[1].totale = Frac(50, 1)
        /\ Flat => report.report[1].totale = Frac(0, 1)

\* the daily report of the third day of the example
C18_Witness ==
    /\ report.status = "ok"
    /\ Declared("cumulative")
    /\ call.df.rows = ExampleTable
    /\ call.fmt = "%Y-%m-%d"
    /\ call.current = KeyOfDay(2, call.fmt)
    /\ report.report[1].totale = Frac(50, 1)

\* the records of the current period
CurrentRecords ==
    {k \in DOMAIN call.df.rows :
        Strftime(call.df.rows[k][CallDateColumns[1]], call.fmt) = call.current}

\* C20: a report for a current period with a single record gives 0 as the
\* standard deviation of every variable.
C20_SingleRecordStd ==
    (Called /\ report.status = "ok" /\ Cardinality(CurrentRecords) = 1) =>
        \A k \in DOMAIN report.report : report.report[k].dev_std = Frac(0, 1)

-----------------------------------------------------------------------------
(* Properties of the retry of a unit *)

\* C19: no step transmits to a chat a message that the chat has already
\* received in an earlier attempt of the unit, the chat's settings being the
\* same since.
C19_AtMostOnce == [][UnitStep => lastSent' \cap unmarked = {}]_vars

-----------------------------------------------------------------------------
(* Properties of Reporter.get_report: missing variables, the restriction *)

\* the declared variables with a type that is reported and a column in the
\* table, in the order of declaration
PresentVariables ==
    LET v == SelectSeq(call.variables, LAMBDA d :
                 d[2] \in {"actual", "cumulative"} /\ d[1] \in call.df.columns)
    IN  [k \in DOMAIN v |-> v[k][1]]

\* C22: a call in ignore mode with a declared variable that is not a column
\* of the table returns a report whose rows are those of the variables
\* present.
C22_MissingVariableOmitted ==
    (Called /\ call.errors = "ignore" /\ ~CallComplete
       /\ Len(CallDateColumns) = 1 /\ call.current \in CallKeys) =>
        /\ report.status = "ok"
        /\ [k \in DOMAIN report.report |-> report.report[k].var]
              = PresentVariables

\* the row of the variable var of type T computed from the whole table
UnrestrictedRow(var, T) ==
    ReportRow(call.df.rows, report.date_column, call.fmt, var, T,
              report.previous, call.current)

\* the type declared for var
TypeOf(var) ==
    LET k == CHOOSE k \in DOMAIN call.variables : call.variables[k][1] = var
    IN  call.variables[k][2]

\* C27: every row of a returned report equals the row computed from the
\* table without the restriction to the previous and the current period.
C27_RestrictionIsOptimization ==
    (Called /\ report.status = "ok") =>
        \A k \in DOMAIN report.report :
            report.report[k] =
                UnrestrictedRow(report.report[k].var,
                                TypeOf(report.report[k].var))

-----------------------------------------------------------------------------
(* Properties of the text of a report *)

\* the variable x is "actual" and all its values in the period before the
\* current one are 0
PreviousMeanZero ==
    /\ Declared("actual")
    /\ CurrentHasPredecessor
    /\ ValuesIn(Predecessor) = {0}

\* total, mean and standard deviation of every row are numbers
OtherCellsFinite ==
    \A k \in DOMAIN report.report :
        /\ report.report[k].totale.kind = "num"
        /\ report.report[k].media.kind = "num"
        /\ report.report[k].dev_std.kind = "num"

\* C21: when the mean of the previous period is zero the text of the report
\* is made all the same, with the other cells of every row and without a
\* cell for the percent change.
C21_ZeroMeanPctOmitted ==
    (text # NoText /\ PreviousMeanZero /\ OtherCellsFinite) =>
        /\ text.status = "ok"
        /\ \A k \in DOMAIN text.cells : text.cells[k][2] # "var pct"

-----------------------------------------------------------------------------
(* Properties of the passes: periods, subscriptions, markers, areas *)

\* C26: the period key of a unit is not the period key of the instant of
\* its pass: the unit reports on a period that is over.
C26_KeyOfElapsedPeriod ==
    pc = "unit" => current # Strftime(previous, period_fmt[periods[pi]])

\* C28: send_reports is called and a marker written for a chat only under
\* the period that the chat's settings name at that moment; a chat without
\* a period in its settings has neither.
C28_OnlySubscribedPeriod ==
    [][((UnitStep /\ lastSkipped' = {}) \/ MarkStep) =>
          Subscribed(chat_data[snapshot[ci]], periods[pi])]_vars

\* new is old but for the marker of db_key, which is t
OnlyMarkerChanged(old, new, db_key, t) ==
    /\ DOMAIN new = DOMAIN old \cup {"last_report"}
    /\ \A k \in DOMAIN old \ {"last_report"} : new[k] = old[k]
    /\ MarkerOf(new, db_key) = t
    /\ \A k \in Range(db_keys) \ {db_key} : MarkerOf(new, k) = MarkerOf(old, k)

\* C29: a step of the worker leaves the data of every chat as they are,
\* but for update_last_report, which changes the marker of its db_key in
\* the data of its chat and nothing else.
C29_OnlyMarkerWritten ==
    [][Worker =>
          \A chat_id \in Chats :
              \/ chat_data'[chat_id] = chat_data[chat_id]
              \/ /\ pc = "mark"
                 /\ chat_id = snapshot[ci]
                 /\ OnlyMarkerChanged(chat_data[chat_id], chat_data'[chat_id],
                                      db_keys[di], current)]_vars

\* the second marker of a chat has been written: the chat has its settings
\* and its first marker as before
C29_Witness ==
    \E chat_id \in Chats :
        /\ Subscribed(chat_data[chat_id], "giorno")
        /\ Has(chat_data[chat_id], "format")
        /\ \A k \in DOMAIN db_keys :
              MarkerOf(chat_data[chat_id], db_keys[k]) = current
        /\ pc = "period"

\* the areas selected in the settings for db_key
Selected(settings, db_key) ==
    IF Has(settings, db_key) THEN settings[db_key] ELSE <<>>

\* the sequence areas has every area of the selection sel once, "Italia"
\* first, the regions in the order of the selection
OnePerArea(areas, sel) ==
    /\ Len(areas) = Len(sel)
    /\ Range(areas) = Range(sel)
    /\ "Italia" \in Range(sel) => areas[1] = "Italia"
    /\ \A i, j \in DOMAIN sel :
          (i < j /\ sel[i] # "Italia" /\ sel[j] # "Italia") =>
              \E k, l \in DOMAIN areas :
                  k < l /\ areas[k] = sel[i] /\ areas[l] = sel[j]

Executing == {t \in DOMAIN threads : threads[t] # "done"}

\* C23: at most one thread executes Reporter._target at any time, under
\* every sequence of calls of Scheduler.start and Scheduler.stop.
C23_AtMostOneWorker == Cardinality(Executing) <= 1

\* the settings stored in the dict d
SettingsOf(d) ==
    [k \in DOMAIN d \cap Range(settings_keys) |-> d[k]]

\* every setting has been answered
Filled(d) == Range(settings_keys) \subseteq DOMAIN d

InConversation == conversation[2] # END

\* C24: a step of a pass that reads the settings of a chat whose settings
\* conversation is in progress finds either the settings from before the
\* conversation or a mapping with every setting filled in.
C24_ConversationAtomic ==
    [][((PeriodStep \/ UnitStep) /\ snapshot[ci] = talker
          /\ InConversation) =>
          \/ SettingsOf(chat_data[talker]) =
                SettingsOf(chat_data[talker]["previous_settings"])
          \/ Filled(chat_data[talker])]_vars

\* C25: a step of /attiva_report, /richiedi_report or /annulla leaves the
\* delivery markers of the chat as they are.
C25_CommandsKeepMarkers ==
    [][Conversation =>
          \A k \in DOMAIN db_keys :
              MarkerOf(chat_data'[talker], db_keys[k]) =
                  MarkerOf(chat_data[talker], db_keys[k])]_vars

\* C31: when the generation of the reports of a unit has failed, nothing
\* of the unit has been transmitted and no step of the attempt changes the
\* stored chat data, so the marker of the unit is as it was.
C31_GenerationAllOrNothing ==
    [][sending'.cause = "generation" =>
          /\ sending'.sent = {}
          /\ chat_data' = chat_data]_vars

\* the report of the second area of a unit could not be generated and the
\* attempt has ended
C31_Witness ==
    /\ sending.cause = "generation"
    /\ Len(sending.reports) = 1
    /\ sending.todo # <<>>
    /\ sending.phase = "done"

\* no area is selected for db_key: the setting is absent or empty
NoAreas(settings, db_key) ==
    ~Has(settings, db_key) \/ settings[db_key] = <<>>

\* C32: the unit of a data source for which a subscribed chat has selected
\* no area transmits nothing and does not come to the marker write.
C32_NoAreasNoDelivery ==
    [][(pc = "unit" /\ UnitStep /\ lastSkipped' = {}
          /\ Subscribed(chat_data[snapshot[ci]], periods[pi])
          /\ NoAreas(chat_data[snapshot[ci]], db_keys[di])) =>
          (lastSent' = {} /\ pc' # "mark")]_vars

\* C33: every iteration of the loop leaves previous set, so that every
\* later iteration takes the master sleep, and a pass that starts after
\* another one, suppressed or not, starts more than sleep seconds after it.
C33_PassesApart ==
    [][Wake =>
          /\ previous' # None
          /\ (previous # None
                /\ (previous' # previous \/ pc' \in {"period", "crashed"})) =>
                (clock' - previous) * SecondsPerHour > sleep]_vars

\* a pass has started after a pass that the quiet hours suppressed
C33_Witness ==
    /\ do_not_disturb = <<21, 10>>
    /\ previous = StartClock + 1
    /\ suppressed

\* the latest pass is over and started more than sleep seconds ago
Overdue ==
    /\ previous # None
    /\ pc \in {"loop", "sleep"}
    /\ (clock - previous) * SecondsPerHour > sleep

\* C34: whatever the value of sleep, when the latest pass is over and more
\* than sleep seconds old, another pass starts, unless the stop flag is set.
C34_NextPassStarts == (Overdue /\ ~stop_target) ~> (~Overdue \/ stop_target)

\* a step that cancels the conversation: /annulla, or an answer without
\* any option to the question about a mandatory setting
Cancelled ==
    \/ CancelConversation
    \/ /\ conversation[2] \in Range(settings_keys)
       /\ mandatory[conversation[2]]
       /\ AnswerSetting(<<>>)

\* C35: the step that cancels a conversation leaves the chat with the data
\* it had stored when the conversation started.
C35_CancelRestores ==
    [][Cancelled => chat_data'[talker] = conversation[4]]_vars

C37_ClearedStaysCleared ==
    [][Worker =>
          \A chat_id \in Chats :
              chat_data[chat_id] = EmptyDict =>
                  /\ chat_data'[chat_id] = EmptyDict
                  /\ \A m \in lastSent' : m[1] # chat_id]_vars

\* C38: when the download of a file fails, a local copy stored before the
\* update has the content it had.
C38_FailedDownloadKeepsFile ==
    [][(Download /\ local'.phase = "raised" /\ local.before = "old") =>
          local'.files[file_keys[local.i]] = "old"]_vars

=============================================================================
